---- MODULE Spec2Model ----
(***************************************************************************)
(* Model of atmo_core/src/lib.rs: the byte-segment predicates, split_once, *)
(* and the AtIdentifier union (parse, structured deserialize, serialize).  *)
(* A byte is a number in 0..255, a slice is a sequence of bytes (1-based   *)
(* here, 0-based in the source: source index i is model index i + 1).      *)
(***************************************************************************)
EXTENDS Integers, Sequences, FiniteSets

VARIABLES input, op, pred, scalar, ret, text, ret2

vars == <<input, op, pred, scalar, ret, text, ret2>>

(***************************************************************************)
(* Bounds of the explored inputs.                                          *)
(***************************************************************************)
\* every slice over SampleBytes of at most this length is an input
MaxShort == 2
\* every concatenation of at most this many Tokens is an input
MaxTokens == 4
\* longest run of filler bytes in a long input (runs of MaxPad-5..MaxPad)
MaxPad == 65

(***************************************************************************)
(* Byte literals of the source.                                            *)
(***************************************************************************)
HYPHEN == 45
DOT == 46
COLON == 58

Byte == 0..255

\* Bytes on both sides of every character-class boundary, and non-ASCII ones.
SampleBytes ==
    {0, 44, 45, 46, 47, 48, 57, 58, 64, 65, 90, 91, 95, 96, 97, 122, 123, 128, 255}

\* "did:"
DID_PREFIX == <<100, 105, 100, 58>>

\* "did:", "a", "Z", "0", "-", ".", ":", "_"
Tokens == {DID_PREFIX, <<97>>, <<90>>, <<48>>, <<45>>, <<46>>, <<58>>, <<95>>}

SeqsUpTo(S, n) == UNION {[1..k -> S] : k \in 0..n}

RECURSIVE Flatten(_)
Flatten(ts) == IF ts = <<>> THEN <<>> ELSE Head(ts) \o Flatten(Tail(ts))

Fill(n, b) == [i \in 1..n |-> b]

ShortInputs == SeqsUpTo(SampleBytes, MaxShort)

LongInputs ==
    {h \o Fill(n, 97) \o t :
        h \in SeqsUpTo(SampleBytes, 1), t \in SeqsUpTo(SampleBytes, 1),
        n \in (MaxPad - 5)..MaxPad}

TokenInputs == {Flatten(ts) : ts \in SeqsUpTo(Tokens, MaxTokens)}

Inputs == ShortInputs \cup LongInputs \cup TokenInputs

\* A byte predicate (F: FnMut(&u8) -> bool) is the set of bytes it accepts.
Preds == {{DOT}, {COLON}, {HYPHEN, DOT}, {}, Byte, 97..122}

(***************************************************************************)
(* Results: a call returns a value or panics.                              *)
(***************************************************************************)
Ret(v) == [panic |-> FALSE, val |-> v]
Panic == [panic |-> TRUE, val |-> FALSE]

None == [some |-> FALSE, before |-> <<>>, after |-> <<>>]
Some(b, a) == [some |-> TRUE, before |-> b, after |-> a]

\* slice[i] with a 0-based usize index: in bounds iff i < len
InBounds(s, i) == i >= 0 /\ i < Len(s)

\* std: u8::is_ascii_alphabetic, matches!(b, b'A'..=b'Z' | b'a'..=b'z')
is_ascii_alphabetic(b) == (b >= 65 /\ b <= 90) \/ (b >= 97 /\ b <= 122)

\* std: u8::is_ascii_alphanumeric, digits added
is_ascii_alphanumeric(b) ==
    (b >= 48 /\ b <= 57) \/ (b >= 65 /\ b <= 90) \/ (b >= 97 /\ b <= 122)

\* faulty variant: the upper bound written one too high (1..=64)
SEGMENT_LEN_RANGE_off_by_one == 1..64

SEGMENT_LEN_RANGE == 1..63

is_segment_char(b) == is_ascii_alphanumeric(b) \/ b = HYPHEN

\* faulty variant: the check of the last byte left out
is_valid_domain_segment_no_last(s) ==
    IF Len(s) \notin SEGMENT_LEN_RANGE THEN Ret(FALSE)
    ELSE IF ~InBounds(s, 0) THEN Panic
    ELSE IF ~(s[1] # HYPHEN) THEN Ret(FALSE)
    ELSE Ret(\A i \in 1..Len(s) : is_segment_char(s[i]))

\* The && chain evaluates left to right and stops at the first false operand;
\* an index expression that is reached with an index out of bounds panics
\* (s.len() - 1 on an empty slice overflows or indexes out of bounds: a panic
\* either way).
is_valid_domain_segment(s) ==
    IF Len(s) \notin SEGMENT_LEN_RANGE THEN Ret(FALSE)
    ELSE IF ~InBounds(s, 0) THEN Panic
    ELSE IF ~(s[1] # HYPHEN) THEN Ret(FALSE)
    ELSE IF ~InBounds(s, Len(s) - 1) THEN Panic
    ELSE IF ~(s[Len(s)] # HYPHEN) THEN Ret(FALSE)
    ELSE Ret(\A i \in 1..Len(s) : is_segment_char(s[i]))

\* faulty variant: the first byte tested with the alphanumeric class
is_valid_tld_alnum(s) ==
    LET d == is_valid_domain_segment(s) IN
    IF d.panic THEN Panic
    ELSE IF ~d.val THEN Ret(FALSE)
    ELSE IF ~InBounds(s, 0) THEN Panic
    ELSE Ret(is_ascii_alphanumeric(s[1]))

\* faulty variant: the operands of && swapped, s[0] read before the length is checked
is_valid_tld_swapped(s) ==
    IF ~InBounds(s, 0) THEN Panic
    ELSE IF ~is_ascii_alphabetic(s[1]) THEN Ret(FALSE)
    ELSE is_valid_domain_segment(s)

is_valid_tld(s) ==
    LET d == is_valid_domain_segment(s) IN
    IF d.panic THEN Panic
    ELSE IF ~d.val THEN Ret(FALSE)
    ELSE IF ~InBounds(s, 0) THEN Panic
    ELSE Ret(is_ascii_alphabetic(s[1]))

\* faulty variant: the character class of the domain segment reused
is_valid_nsid_name_segment_char(s) ==
    IF Len(s) \notin SEGMENT_LEN_RANGE THEN Ret(FALSE)
    ELSE IF ~InBounds(s, 0) THEN Panic
    ELSE IF ~(s[1] # HYPHEN) THEN Ret(FALSE)
    ELSE IF ~InBounds(s, Len(s) - 1) THEN Panic
    ELSE IF ~(s[Len(s)] # HYPHEN) THEN Ret(FALSE)
    ELSE Ret(\A i \in 1..Len(s) : is_segment_char(s[i]))

is_valid_nsid_name(s) ==
    IF Len(s) \notin SEGMENT_LEN_RANGE THEN Ret(FALSE)
    ELSE IF ~InBounds(s, 0) THEN Panic
    ELSE IF ~(s[1] # HYPHEN) THEN Ret(FALSE)
    ELSE IF ~InBounds(s, Len(s) - 1) THEN Panic
    ELSE IF ~(s[Len(s)] # HYPHEN) THEN Ret(FALSE)
    ELSE Ret(\A i \in 1..Len(s) : is_ascii_alphabetic(s[i]))

\* slice.iter().position(pred): the 0-based index of the first element that
\* satisfies pred, scanning from index i; -1 stands for None
RECURSIVE position_from(_, _, _)
position_from(s, P, i) ==
    IF i >= Len(s) THEN -1
    ELSE IF s[i + 1] \in P THEN i
    ELSE position_from(s, P, i + 1)

position(s, P) == position_from(s, P, 0)

\* &slice[from..to] with 0-based bounds; the caller has checked from <= to <= len
Slice(s, from, to) == [k \in 1..(to - from) |-> s[from + k]]

\* slice[a..b] panics unless a <= b <= len
RangeOk(s, a, b) == a >= 0 /\ a <= b /\ b <= Len(s)

\* faulty variant: the matched byte kept in the second half (slice[index..])
split_once_keep_match(slice, P) ==
    LET index == position(slice, P) IN
    IF index < 0 THEN Ret(None)
    ELSE IF ~RangeOk(slice, 0, index) THEN Panic
    ELSE IF ~RangeOk(slice, index, Len(slice)) THEN Panic
    ELSE Ret(Some(Slice(slice, 0, index), Slice(slice, index, Len(slice))))

split_once(slice, P) ==
    LET index == position(slice, P) IN
    IF index < 0 THEN Ret(None)
    ELSE IF ~RangeOk(slice, 0, index) THEN Panic
    ELSE IF ~RangeOk(slice, index + 1, Len(slice)) THEN Panic
    ELSE Ret(Some(Slice(slice, 0, index), Slice(slice, index + 1, Len(slice))))

(***************************************************************************)
(* Did and Handle (crate::did, crate::handle): their parsers and renderers *)
(* as the specification describes them.                                    *)
(***************************************************************************)
Ok(v) == [ok |-> TRUE, v |-> v, err |-> [kind |-> "none", why |-> "none"]]
Err(k, w) == [ok |-> FALSE, v |-> [tag |-> "none"], err |-> [kind |-> k, why |-> w]]

\* RFC 3986 unreserved: ALPHA / DIGIT / "-" / "." / "_" / "~"
is_unreserved(b) == is_ascii_alphanumeric(b) \/ b \in {45, 46, 95, 126}

is_method_char(b) == (b >= 97 /\ b <= 122) \/ (b >= 48 /\ b <= 57)

StartsWith(s, p) == Len(s) >= Len(p) /\ SubSeq(s, 1, Len(p)) = p

\* fixed prefix, then a lowercase method tag, ':', then the method-specific id
Did_from_str(s) ==
    IF ~StartsWith(s, DID_PREFIX) THEN Err("did", "prefix")
    ELSE
        LET sp == split_once(SubSeq(s, Len(DID_PREFIX) + 1, Len(s)), {COLON}).val IN
        IF ~sp.some THEN Err("did", "no_method")
        ELSE IF sp.before = <<>> \/ \E i \in 1..Len(sp.before) : ~is_method_char(sp.before[i])
            THEN Err("did", "method")
        ELSE IF sp.after = <<>> \/ \E i \in 1..Len(sp.after) : ~is_unreserved(sp.after[i])
            THEN Err("did", "id")
        ELSE Ok([tag |-> "DidValue", method |-> sp.before, id |-> sp.after])

\* render-to-text of a Did: prefix, method tag, ':', method-specific id
Did_render(did) == DID_PREFIX \o did.method \o <<COLON>> \o did.id

\* labels split off left to right on '.'; every label but the last is a domain
\* segment, the last is a top-level-domain segment, and there are at least two
RECURSIVE Handle_scan(_, _)
Handle_scan(rest, count) ==
    LET sp == split_once(rest, {DOT}).val IN
    IF ~sp.some THEN
        IF count < 1 THEN "segment_count"
        ELSE IF ~is_valid_tld(rest).val THEN "tld"
        ELSE "ok"
    ELSE IF ~is_valid_domain_segment(sp.before).val THEN "segment"
    ELSE Handle_scan(sp.after, count + 1)

Handle_from_str(s) ==
    LET r == Handle_scan(s, 0) IN
    IF r = "ok" THEN Ok([tag |-> "HandleValue", name |-> s]) ELSE Err("handle", r)

\* render-to-text of a Handle: the text as given
Handle_render(handle) == handle.name

\* Did::serialize / Handle::serialize: render-to-text, encoded as one text scalar
TextScalar(s) == [kind |-> "str", s |-> s]
Did_serialize(did) == TextScalar(Did_render(did))
Handle_serialize(handle) == TextScalar(Handle_render(handle))

(***************************************************************************)
(* AtIdentifier                                                            *)
(***************************************************************************)
AtIdentifier_Did(did) == [tag |-> "Did", inner |-> did]
AtIdentifier_Handle(handle) == [tag |-> "Handle", inner |-> handle]

\* ParseError::at_identifier()
ParseError_at_identifier == [kind |-> "at_identifier", why |-> "none"]

\* faulty variant: the Handle fallback (or_else) left out
AtIdentifier_from_str_did_only(s) ==
    LET did == Did_from_str(s)
        r1 == IF did.ok THEN Ok(AtIdentifier_Did(did.v)) ELSE did
    IN  IF r1.ok THEN r1 ELSE [r1 EXCEPT !.err = ParseError_at_identifier]

\* faulty variant: the final map_err left out, the Handle error passed on
AtIdentifier_from_str_no_map_err(s) ==
    LET did == Did_from_str(s)
        r1 == IF did.ok THEN Ok(AtIdentifier_Did(did.v)) ELSE did
        handle == Handle_from_str(s)
    IN  IF r1.ok THEN r1
        ELSE IF handle.ok THEN Ok(AtIdentifier_Handle(handle.v)) ELSE handle

\* Did::from_str(s).map(AtIdentifier::Did)
\*     .or_else(|_| Handle::from_str(s).map(AtIdentifier::Handle))
\*     .map_err(|_| ParseError::at_identifier())
AtIdentifier_from_str(s) ==
    LET did == Did_from_str(s)
        r1 == IF did.ok THEN Ok(AtIdentifier_Did(did.v)) ELSE did
        handle == Handle_from_str(s)
        r2 == IF r1.ok THEN r1
              ELSE IF handle.ok THEN Ok(AtIdentifier_Handle(handle.v)) ELSE handle
    IN  IF r2.ok THEN r2 ELSE [r2 EXCEPT !.err = ParseError_at_identifier]

\* A value handed to a deserializer: a text scalar, or anything else.
OtherScalar == [kind |-> "other", s |-> <<>>]

\* faulty variant: a text the parser rejects is wrapped as a Handle unchecked
AtIdentifier_deserialize_unchecked(des) ==
    IF des.kind # "str" THEN Err("invalid_type", "none")
    ELSE
        LET r == AtIdentifier_from_str(des.s) IN
        IF r.ok THEN r
        ELSE Ok(AtIdentifier_Handle([tag |-> "HandleValue", name |-> des.s]))

\* let s = Cow::<str>::deserialize(des)?;
\* from_str(s.as_ref()).map_err(D::Error::custom)
AtIdentifier_deserialize(des) ==
    IF des.kind # "str" THEN Err("invalid_type", "none")
    ELSE
        LET r == AtIdentifier_from_str(des.s) IN
        IF r.ok THEN r ELSE Err("custom", r.err.kind)

\* faulty variant: the enum serialized with its variant name as a tag
AtIdentifier_serialize_tagged(self) ==
    IF self.tag = "Did"
    THEN [kind |-> "variant", s |-> Did_serialize(self.inner).s]
    ELSE [kind |-> "variant", s |-> Handle_serialize(self.inner).s]

\* match self { Did(did) => did.serialize(ser), Handle(handle) => handle.serialize(ser) }
AtIdentifier_serialize(self) ==
    IF self.tag = "Did" THEN Did_serialize(self.inner)
    ELSE Handle_serialize(self.inner)

(***************************************************************************)
(* The state machine: one input, then one call on it (and, after a         *)
(* successful parse, its rendering and the parse of the rendering).        *)
(***************************************************************************)
NoRet == [panic |-> FALSE, val |-> FALSE]
NoScalar == [kind |-> "none", s |-> <<>>]

\* a &str is valid UTF-8; the ASCII slices are the ones explored as strings
IsStr(s) == \A i \in 1..Len(s) : s[i] < 128

Init ==
    /\ input \in Inputs
    /\ op = "none"
    /\ pred = {}
    /\ scalar = NoScalar
    /\ ret = NoRet
    /\ text = NoScalar
    /\ ret2 = NoRet

Call_is_valid_domain_segment ==
    /\ op = "none"
    /\ op' = "is_valid_domain_segment"
    /\ ret' = is_valid_domain_segment(input)
    /\ UNCHANGED <<input, pred, scalar, text, ret2>>

Call_is_valid_tld ==
    /\ op = "none"
    /\ op' = "is_valid_tld"
    /\ ret' = is_valid_tld(input)
    /\ UNCHANGED <<input, pred, scalar, text, ret2>>

Call_is_valid_nsid_name ==
    /\ op = "none"
    /\ op' = "is_valid_nsid_name"
    /\ ret' = is_valid_nsid_name(input)
    /\ UNCHANGED <<input, pred, scalar, text, ret2>>

Call_split_once ==
    /\ op = "none"
    /\ \E P \in Preds :
        /\ pred' = P
        /\ ret' = split_once(input, P)
    /\ op' = "split_once"
    /\ UNCHANGED <<input, scalar, text, ret2>>

Call_from_str ==
    /\ op = "none"
    /\ IsStr(input)
    /\ op' = "from_str"
    /\ ret' = AtIdentifier_from_str(input)
    /\ UNCHANGED <<input, pred, scalar, text, ret2>>

Call_deserialize ==
    /\ op = "none"
    /\ \E des \in {TextScalar(input), OtherScalar} :
        /\ des.kind = "str" => IsStr(des.s)
        /\ scalar' = des
        /\ ret' = AtIdentifier_deserialize(des)
    /\ op' = "deserialize"
    /\ UNCHANGED <<input, pred, text, ret2>>

Call_serialize ==
    /\ op = "from_str"
    /\ ret.ok
    /\ op' = "serialize"
    /\ text' = AtIdentifier_serialize(ret.v)
    /\ UNCHANGED <<input, pred, scalar, ret, ret2>>

Call_reparse ==
    /\ op = "serialize"
    /\ text.kind = "str"
    /\ op' = "reparse"
    /\ ret2' = AtIdentifier_from_str(text.s)
    /\ UNCHANGED <<input, pred, scalar, ret, text>>

Next ==
    \/ Call_is_valid_domain_segment
    \/ Call_is_valid_tld
    \/ Call_is_valid_nsid_name
    \/ Call_split_once
    \/ Call_from_str
    \/ Call_deserialize
    \/ Call_serialize
    \/ Call_reparse

Spec == Init /\ [][Next]_vars

(***************************************************************************)
(* The character classes and segment rules as the documentation states     *)
(* them, independent of the definitions above.                             *)
(***************************************************************************)
AsciiLetters == (65..90) \cup (97..122)
AsciiDigits == 48..57

FirstLastNotHyphen(s) == s[1] # 45 /\ s[Len(s)] # 45

DomainSegmentRule(s) ==
    /\ Len(s) >= 1
    /\ Len(s) <= 63
    /\ FirstLastNotHyphen(s)
    /\ \A i \in 1..Len(s) : s[i] \in AsciiLetters \cup AsciiDigits \cup {45}

NsidNameRule(s) ==
    /\ Len(s) >= 1
    /\ Len(s) <= 63
    /\ FirstLastNotHyphen(s)
    /\ \A i \in 1..Len(s) : s[i] \in AsciiLetters

SegmentOps == {"is_valid_domain_segment", "is_valid_tld", "is_valid_nsid_name"}

\* C1: is_valid_domain_segment(s) returns true iff the length of s is in
\* [1,63], the first and the last byte are not '-', and every byte is ASCII
\* alphanumeric or '-'.
C1_DomainSegmentIff ==
    op = "is_valid_domain_segment" =>
        /\ ~ret.panic
        /\ ret.val = DomainSegmentRule(input)

C1_Witness ==
    /\ op = "is_valid_domain_segment"
    /\ ret.val = TRUE
    /\ Len(input) = 3
    /\ input[2] = 45

\* C2: is_valid_tld(s) returns true iff s is a valid domain segment and its
\* first byte is an ASCII letter; a single letter is accepted, a segment that
\* starts with a digit is not.
C2_TldIff ==
    op = "is_valid_tld" =>
        /\ ~ret.panic
        /\ ret.val = (is_valid_domain_segment(input).val /\ input[1] \in AsciiLetters)
        /\ (Len(input) = 1 /\ input[1] \in AsciiLetters => ret.val = TRUE)
        /\ (Len(input) >= 1 /\ input[1] \in AsciiDigits => ret.val = FALSE)

C2_Witness ==
    /\ op = "is_valid_tld"
    /\ Len(input) = 1
    /\ input[1] \in AsciiLetters
    /\ ret.val = TRUE

\* C3: is_valid_nsid_name(s) returns true iff the length of s is in [1,63],
\* the first and the last byte are not '-', and every byte is ASCII
\* alphabetic; a slice with a digit or a hyphen anywhere is rejected, also
\* when it is a valid domain segment.
C3_NsidNameIff ==
    op = "is_valid_nsid_name" =>
        /\ ~ret.panic
        /\ ret.val = NsidNameRule(input)
        /\ ((\E i \in 1..Len(input) : input[i] \in AsciiDigits \cup {45})
                => ret.val = FALSE)

C3_Witness ==
    /\ op = "is_valid_nsid_name"
    /\ ret.val = FALSE
    /\ is_valid_domain_segment(input).val
    /\ \E i \in 1..Len(input) : input[i] \in AsciiDigits \cup {45}

\* C4: split_once returns None exactly when no byte of the slice satisfies
\* the predicate; otherwise (before, after) with before the prefix up to the
\* first matching byte, no byte of before matching, and
\* before ++ [matched byte] ++ after equal to the slice.
C4_SplitOnce ==
    op = "split_once" =>
        /\ ~ret.panic
        /\ (ret.val.some = FALSE) = (\A i \in 1..Len(input) : input[i] \notin pred)
        /\ ret.val.some =>
            LET before == ret.val.before
                after == ret.val.after
            IN  /\ Len(before) < Len(input)
                /\ input[Len(before) + 1] \in pred
                /\ \A i \in 1..Len(before) : before[i] \notin pred
                /\ before = SubSeq(input, 1, Len(before))
                /\ before \o <<input[Len(before) + 1]>> \o after = input

C4_Witness ==
    /\ op = "split_once"
    /\ ret.val.some
    /\ Len(ret.val.before) >= 1
    /\ \E i \in 1..Len(ret.val.after) : ret.val.after[i] \in pred

\* C5: AtIdentifier parsing tries Did first and Handle second: the result is
\* the Did variant whenever Did parsing accepts, the Handle variant only when
\* Did parsing rejects and Handle parsing accepts, it succeeds iff one of the
\* two accepts, and a successful result holds exactly one variant.
C5_DidFirst ==
    op = "from_str" =>
        LET did == Did_from_str(input)
            handle == Handle_from_str(input)
        IN  /\ ret.ok = (did.ok \/ handle.ok)
            /\ did.ok => ret.ok /\ ret.v = [tag |-> "Did", inner |-> did.v]
            /\ (~did.ok /\ handle.ok) =>
                ret.ok /\ ret.v = [tag |-> "Handle", inner |-> handle.v]
            /\ ret.ok => ret.v.tag \in {"Did", "Handle"}
            /\ (ret.ok /\ ret.v.tag = "Handle") => ~did.ok /\ handle.ok

C5_Witness ==
    /\ op = "from_str"
    /\ Handle_from_str(input).ok
    /\ ret.ok
    /\ ret.v.tag = "Handle"

\* C6: when Did parsing and Handle parsing both reject, AtIdentifier parsing
\* returns the one generic at-identifier error, whatever the two underlying
\* errors were; it never returns a Did or Handle error, and holds no value.
C6_GenericError ==
    op = "from_str" =>
        /\ (~Did_from_str(input).ok /\ ~Handle_from_str(input).ok) => ~ret.ok
        /\ ~ret.ok =>
            /\ ret.err = [kind |-> "at_identifier", why |-> "none"]
            /\ ret.v = [tag |-> "none"]
        /\ ret.err.kind \notin {"did", "handle"}

C6_Witness ==
    /\ op = "from_str"
    /\ Did_from_str(input).err.why = "id"
    /\ Handle_from_str(input).err.why = "segment"
    /\ ~ret.ok

\* C7: structured deserialization decodes a text scalar and applies
\* parse-from-text to it: it yields a value only if parse-from-text accepts
\* the text, the value is the one parse-from-text returns, and a rejected
\* text is a deserialization error.
C7_DeserializeViaFromStr ==
    op = "deserialize" =>
        /\ scalar.kind # "str" => ~ret.ok
        /\ scalar.kind = "str" =>
            LET parsed == AtIdentifier_from_str(scalar.s) IN
            /\ ret.ok = parsed.ok
            /\ ret.ok => ret.v = parsed.v
            /\ ~ret.ok => ret.err.kind = "custom" /\ ret.v = [tag |-> "none"]

C7_Witness ==
    /\ op = "deserialize"
    /\ scalar.kind = "str"
    /\ Len(scalar.s) >= 3
    /\ ~AtIdentifier_from_str(scalar.s).ok
    /\ ~ret.ok

OtherwiseValid(o, s) ==
    /\ Len(s) >= 1
    /\ FirstLastNotHyphen(s)
    /\ o = "is_valid_domain_segment" =>
        \A i \in 1..Len(s) : s[i] \in AsciiLetters \cup AsciiDigits \cup {45}
    /\ o = "is_valid_tld" =>
        /\ \A i \in 1..Len(s) : s[i] \in AsciiLetters \cup AsciiDigits \cup {45}
        /\ s[1] \in AsciiLetters
    /\ o = "is_valid_nsid_name" => \A i \in 1..Len(s) : s[i] \in AsciiLetters

\* C9: for each of the three segment predicates, 63 otherwise-valid bytes are
\* accepted and 64 rejected, 1 otherwise-valid byte is accepted and the empty
\* segment rejected, and a segment over the bound is rejected whatever else
\* holds of it.
C9_BoundaryExact ==
    op \in SegmentOps =>
        /\ (Len(input) = 63 /\ OtherwiseValid(op, input)) => ret.val = TRUE
        /\ (Len(input) = 1 /\ OtherwiseValid(op, input)) => ret.val = TRUE
        /\ Len(input) = 64 => ret.val = FALSE
        /\ Len(input) = 0 => ret.val = FALSE
        /\ Len(input) > 63 => ret.val = FALSE

C9_Witness ==
    /\ op = "is_valid_nsid_name"
    /\ Len(input) = 64
    /\ OtherwiseValid(op, input)
    /\ ret.val = FALSE

\* C10: none of the three segment predicates and split_once panics on any
\* slice: every index read is in bounds when it is evaluated; the empty slice
\* yields false (or None) as an ordinary result.
C10_NoPanic ==
    /\ op \in SegmentOps \cup {"split_once"} => ~ret.panic
    /\ (op \in SegmentOps /\ input = <<>>) => ret = [panic |-> FALSE, val |-> FALSE]
    /\ (op = "split_once" /\ input = <<>>) => ret.val.some = FALSE

C10_Witness ==
    /\ op = "split_once"
    /\ ~ret.panic
    /\ ret.val.some
    /\ Len(ret.val.before) = Len(input) - 1
    /\ ret.val.after = <<>>
    /\ Len(input) >= 2

====
